---- MODULE Spec2Model ----
(***************************************************************************)
(* Documentation aggregation (document::describe, ExplicitDocumentation,   *)
(* filters::cookie) and its translation to an OpenAPI document             *)
(* (document::to_openapi) of warp's documentation subsystem.               *)
(*                                                                         *)
(* Strings that the code edits (route paths, parameter names) are          *)
(* sequences of one-character strings; other strings are TLA+ strings.     *)
(* Option<T> is a sequence of length 0 (None) or 1 (Some).  A HashMap is   *)
(* a function; an IndexMap is a sequence of <<key, value>> pairs.          *)
(***************************************************************************)
EXTENDS Integers, Sequences, FiniteSets, TLC

VARIABLES
    pc,         \* position of the caller: start, built, described, supplied, translated
    filter,     \* Option: the composed unit handed to describe / filter
    partial,    \* Option: the partial record passed to the unit's describe
    routes,     \* the Vec<RouteDocumentation> currently held
    hashOrder,  \* per route, the iteration order its responses HashMap produced
    rendered,   \* the (path, item) pairs the map closure of to_openapi produced
    openapi,    \* the result of to_openapi
    outcome     \* Option: <<input, outcome>> of the last filter call on the unit

vars == <<pc, filter, partial, routes, hashOrder, rendered, openapi, outcome>>

----------------------------------------------------------------------------
(* Bounds *)

MaxRoutes == 2      \* routes in a vector handed directly to to_openapi
MaxParams == 2      \* positional parameters of a supplied route
MaxUnits  == 3      \* leaf units of a composed filter

None    == <<>>
Some(x) == <<x>>

----------------------------------------------------------------------------
(* Type-description model *)

Primitive(ty) == [kind |-> "Primitive", ty |-> ty, documentation |-> None, required |-> TRUE]

integer == Primitive("Integer")

string == Primitive("String")

Array(t) == [kind |-> "Array", items |-> t]

Object(fields) == [kind |-> "Object", fields |-> fields]

EmptyMap == [k \in {} |-> None]

SchemaDataDefault == [description |-> None, nullable |-> FALSE]

PrimitiveType(ty) ==
    CASE ty = "Boolean" -> "boolean"
      [] ty = "Float"   -> "number"
      [] ty = "Integer" -> "integer"
      [] ty = "String"  -> "string"

RECURSIVE documented_type_to_openapi(_)
documented_type_to_openapi(t) ==
    CASE t.kind = "Array" ->
            [schema_data |-> SchemaDataDefault,
             schema_kind |-> [type |-> "array",
                              items |-> documented_type_to_openapi(t.items)]]
      [] t.kind = "Object" ->
            [schema_data |-> SchemaDataDefault,
             schema_kind |-> [type |-> "object",
                              properties |-> [n \in DOMAIN t.fields |->
                                                documented_type_to_openapi(t.fields[n])]]]
      [] t.kind = "Primitive" ->
            [schema_data |-> [description |-> t.documentation, nullable |-> ~t.required],
             schema_kind |-> [type |-> PrimitiveType(t.ty)]]

StringSchema == [schema_data |-> SchemaDataDefault, schema_kind |-> [type |-> "string"]]

----------------------------------------------------------------------------
(* Route-documentation record *)

RouteDocumentationDefault ==
    [cookies |-> <<>>, headers |-> <<>>, method |-> None, parameters |-> <<>>,
     path |-> <<>>, queries |-> <<>>, responses |-> EmptyMap]

DocumentedResponseDefault == [description |-> "", headers |-> <<>>, body |-> <<>>]

----------------------------------------------------------------------------
(* String helpers: format!("{{{}}}", x) and str::replace *)

DigitChar(d) == <<"0", "1", "2", "3", "4", "5", "6", "7", "8", "9">>[d + 1]

RECURSIVE Decimal(_)
Decimal(i) == IF i < 10 THEN <<DigitChar(i)>>
              ELSE Decimal(i \div 10) \o <<DigitChar(i % 10)>>

Braced(s) == <<"{">> \o s \o <<"}">>

StartsWith(s, from) == Len(s) >= Len(from) /\ SubSeq(s, 1, Len(from)) = from

RECURSIVE Replace(_, _, _)
Replace(s, from, to) ==
    IF Len(s) < Len(from) THEN s
    ELSE IF StartsWith(s, from)
         THEN to \o Replace(SubSeq(s, Len(from) + 1, Len(s)), from, to)
         ELSE <<Head(s)>> \o Replace(Tail(s), from, to)

\* the .inspect closure run over parameters.enumerate(): parameter k (1-based)
\* rewrites the placeholder {k-1} of the path left by the parameters before it
RECURSIVE RenamePlaceholders(_, _, _)
RenamePlaceholders(path, parameters, k) ==
    IF k = 0 THEN path
    ELSE Replace(RenamePlaceholders(path, parameters, k - 1),
                 Braced(Decimal(k - 1)), Braced(parameters[k].name))

----------------------------------------------------------------------------
(* IndexMap and sorting *)

Keys(m) == {m[i][1] : i \in 1..Len(m)}

IndexMapInsert_keepFirst(m, k, v) ==
    IF k \in Keys(m) THEN m ELSE Append(m, <<k, v>>)

IndexMapInsert(m, k, v) ==
    IF k \in Keys(m)
    THEN [i \in 1..Len(m) |-> IF m[i][1] = k THEN <<k, v>> ELSE m[i]]
    ELSE Append(m, <<k, v>>)

RECURSIVE IndexMapExtend(_, _)
IndexMapExtend(m, entries) ==
    IF entries = <<>> THEN m
    ELSE IndexMapExtend(IndexMapInsert(m, Head(entries)[1], Head(entries)[2]), Tail(entries))

IndexMapGet(m, k) == m[CHOOSE i \in 1..Len(m) : m[i][1] = k][2]

\* stable insertion of e into the sorted sequence s, by key e[1]
RECURSIVE SortedInsert(_, _)
SortedInsert(s, e) ==
    IF s = <<>> THEN <<e>>
    ELSE IF s[Len(s)][1] <= e[1] THEN Append(s, e)
         ELSE Append(SortedInsert(SubSeq(s, 1, Len(s) - 1), e), s[Len(s)])

sort_by_key_unsorted(s) == s

RECURSIVE sort_by_key(_)
sort_by_key(s) ==
    IF s = <<>> THEN <<>>
    ELSE SortedInsert(sort_by_key(SubSeq(s, 1, Len(s) - 1)), s[Len(s)])

Perms(S) == {p \in [1..Cardinality(S) -> S] : \A i, j \in 1..Cardinality(S) : i # j => p[i] # p[j]}

----------------------------------------------------------------------------
(* Schema translator: to_openapi *)

PathItemDefault ==
    [get |-> None, put |-> None, post |-> None, delete |-> None,
     options |-> None, head |-> None, patch |-> None, trace |-> None]

Slots == {"get", "put", "post", "delete", "options", "head", "patch", "trace"}

SupportedMethods == {"GET", "POST", "PUT", "DELETE", "HEAD", "OPTIONS", "PATCH", "TRACE"}

PathParameter(param) ==
    [location |-> "path", name |-> param.name, description |-> param.description,
     required |-> TRUE, deprecated |-> Some(FALSE),
     format |-> documented_type_to_openapi(param.parameter_type)]

HeaderParameter(header) ==
    [location |-> "header", name |-> header.name, description |-> header.description,
     required |-> header.required, deprecated |-> Some(FALSE), format |-> StringSchema]

QueryParameter(query) ==
    [location |-> "query", name |-> query.name, description |-> query.description,
     required |-> query.required, deprecated |-> Some(FALSE), format |-> StringSchema]

CookieParameter(cookie) ==
    [location |-> "cookie", name |-> cookie.name, description |-> cookie.description,
     required |-> cookie.required, deprecated |-> Some(FALSE), format |-> StringSchema]

OperationParameters(route) ==
    [i \in 1..Len(route.parameters) |-> PathParameter(route.parameters[i])]
    \o [i \in 1..Len(route.headers) |-> HeaderParameter(route.headers[i])]
    \o [i \in 1..Len(route.queries) |-> QueryParameter(route.queries[i])]
    \o [i \in 1..Len(route.cookies) |-> CookieParameter(route.cookies[i])]

ResponseHeader(header) ==
    <<header.name, [description |-> header.description, required |-> FALSE,
                    deprecated |-> None, format |-> StringSchema]>>

MediaType(body) ==
    <<IF body.mime = None THEN "*/*" ELSE body.mime[1],
      [schema |-> Some(documented_type_to_openapi(body.body))]>>

RenderResponse(response) ==
    [description |-> response.description,
     headers |-> IndexMapExtend(<<>>, [i \in 1..Len(response.headers) |->
                                          ResponseHeader(response.headers[i])]),
     content |-> IndexMapExtend(<<>>, [i \in 1..Len(response.body) |->
                                          MediaType(response.body[i])])]

\* order: the sequence of status codes in which the HashMap was iterated
OperationResponses(route, order) ==
    LET collected == [i \in 1..Len(order) |-> <<order[i], route.responses[order[i]]>>]
        sorted    == sort_by_key(collected)
    IN  IndexMapExtend(<<>>, [i \in 1..Len(sorted) |->
                                <<sorted[i][1], RenderResponse(sorted[i][2])>>])

MethodOrDefault_get(method) == IF method = None THEN "GET" ELSE method[1]

MethodOrDefault(method) == IF method = None THEN "POST" ELSE method[1]

PlaceOperation(item, method, operation) ==
    CASE method = "GET"     -> [item EXCEPT !.get = Some(operation)]
      [] method = "POST"    -> [item EXCEPT !.post = Some(operation)]
      [] method = "PUT"     -> [item EXCEPT !.put = Some(operation)]
      [] method = "DELETE"  -> [item EXCEPT !.delete = Some(operation)]
      [] method = "HEAD"    -> [item EXCEPT !.head = Some(operation)]
      [] method = "OPTIONS" -> [item EXCEPT !.options = Some(operation)]
      [] method = "PATCH"   -> [item EXCEPT !.patch = Some(operation)]
      [] method = "TRACE"   -> [item EXCEPT !.trace = Some(operation)]

\* unimplemented!() is reached for every other method
Unimplemented(route) == MethodOrDefault(route.method) \notin SupportedMethods

\* the map closure, for a route that does not reach unimplemented!()
RenderRoute(route, order) ==
    LET operation == [parameters |-> OperationParameters(route),
                      responses  |-> OperationResponses(route, order)]
    IN  <<RenamePlaceholders(route.path, route.parameters, Len(route.parameters)),
          PlaceOperation(PathItemDefault, MethodOrDefault(route.method), operation)>>

\* the routes the lazy map renders before the first panic, if any
RenderedPrefix(rs, orders) ==
    LET bad == {i \in 1..Len(rs) : Unimplemented(rs[i])}
        n   == IF bad = {} THEN Len(rs)
               ELSE (CHOOSE i \in bad : \A j \in bad : i <= j) - 1
    IN  [i \in 1..n |-> RenderRoute(rs[i], orders[i])]

to_openapi(rs, orders) ==
    IF \E i \in 1..Len(rs) : Unimplemented(rs[i])
    THEN [status |-> "panic"]
    ELSE [status |-> "ok", openapi |-> "3.0.0",
          paths |-> IndexMapExtend(<<>>, RenderedPrefix(rs, orders))]

----------------------------------------------------------------------------
(* Documentation helpers used by the cookie filters *)

response(status, body) ==
    <<status, [DocumentedResponseDefault EXCEPT !.body = body]>>

description(r, text) == <<r[1], [r[2] EXCEPT !.description = text]>>

cookie_doc(name) == [name |-> name, description |-> None, required |-> TRUE]

required(c, flag) == [c EXCEPT !.required = flag]

route_response(route, r) ==
    [route EXCEPT !.responses = [k \in DOMAIN @ \cup {r[1]} |-> IF k = r[1] THEN r[2] ELSE @[k]]]

route_cookie(route, c) == [route EXCEPT !.cookies = Append(@, c)]

----------------------------------------------------------------------------
(* Units: the cookie filters, the explicit wrapper, and the combinators *)

CookieItem(name) == [kind |-> "cookie_item", name |-> name]

OptionalItem(name) == [kind |-> "optional_item", name |-> name]

CookieCallback(name) == [kind |-> "cookie", name |-> name]

OptionalCallback(name) == [kind |-> "optional", name |-> name]

ExplicitDocumentation(item, callback) ==
    [kind |-> "explicit", item |-> item, callback |-> callback]

cookie(name) == ExplicitDocumentation(CookieItem(name), CookieCallback(name))

optional(name) == ExplicitDocumentation(OptionalItem(name), OptionalCallback(name))

PathLiteral(segment) == [kind |-> "path", segment |-> segment]

And(first, second) == [kind |-> "and", first |-> first, second |-> second]

Or(first, second) == [kind |-> "or", first |-> first, second |-> second]

ApplyCallback_notRequired(callback, route) ==
    CASE callback.kind = "cookie" ->
            route_cookie(route_response(route, description(response(400, None), "Bad Response")),
                         required(cookie_doc(callback.name), FALSE))
      [] callback.kind = "optional" ->
            route_cookie(route, required(cookie_doc(callback.name), FALSE))

\* the closures handed to document::explicit in filters/cookie.rs
ApplyCallback(callback, route) ==
    CASE callback.kind = "cookie" ->
            route_cookie(route_response(route, description(response(400, None), "Bad Response")),
                         required(cookie_doc(callback.name), TRUE))
      [] callback.kind = "optional" ->
            route_cookie(route, required(cookie_doc(callback.name), FALSE))

PathLiteral_describe(unit, route) ==
    <<[route EXCEPT !.path = @ \o <<"/">> \o unit.segment]>>

ExplicitDocumentation_describe_merge(unit, route) ==
    IF unit.item.kind = "path"
    THEN <<ApplyCallback(unit.callback, PathLiteral_describe(unit.item, route)[1])>>
    ELSE <<ApplyCallback(unit.callback, route)>>

ExplicitDocumentation_describe(unit, route) == <<ApplyCallback(unit.callback, route)>>

RECURSIVE Concat(_)
Concat(ss) == IF ss = <<>> THEN <<>> ELSE Head(ss) \o Concat(Tail(ss))

RECURSIVE FilterDescribe(_, _)
And_describe_firstOnly(unit, route) ==
    LET firsts == FilterDescribe(unit.first, route)
    IN  IF firsts = <<>> THEN <<>> ELSE FilterDescribe(unit.second, firsts[1])

And_describe(unit, route) ==
    LET firsts == FilterDescribe(unit.first, route)
    IN  Concat([i \in 1..Len(firsts) |-> FilterDescribe(unit.second, firsts[i])])

Or_describe(unit, route) ==
    FilterDescribe(unit.first, route) \o FilterDescribe(unit.second, route)

FilterDescribe(unit, route) ==
    CASE unit.kind = "explicit" -> ExplicitDocumentation_describe(unit, route)
      [] unit.kind = "path"     -> PathLiteral_describe(unit, route)
      [] unit.kind = "and"      -> And_describe(unit, route)
      [] unit.kind = "or"       -> Or_describe(unit, route)

describe_pushAll(unit) ==
    LET described == FilterDescribe(unit, RouteDocumentationDefault)
    IN  [i \in 1..Len(described) |-> [described[i] EXCEPT !.path = Append(@, "/")]]

\* document::describe: routes with an empty path get '/' pushed
describe(unit) ==
    LET described == FilterDescribe(unit, RouteDocumentationDefault)
    IN  [i \in 1..Len(described) |->
            IF described[i].path = <<>>
            THEN [described[i] EXCEPT !.path = Append(@, "/")]
            ELSE described[i]]

----------------------------------------------------------------------------
(* Matching: the outcome of a unit's filter on a request *)

Extract(value) == [outcome |-> "extract", value |-> value]

Reject(cause) == [outcome |-> "reject", value |-> cause]

\* a request: its Cookie header (Option of a map name -> value) and its path
Header2(request) ==
    IF request.cookie = None THEN Reject("missing_header") ELSE Extract(request.cookie[1])

ItemFilter(item, request) ==
    CASE item.kind = "cookie_item" ->
            LET header == Header2(request)
            IN  IF header.outcome = "reject" THEN header
                ELSE IF item.name \in DOMAIN header.value
                     THEN Extract(header.value[item.name])
                     ELSE Reject("missing_cookie")
      [] item.kind = "optional_item" ->
            IF request.cookie # None /\ item.name \in DOMAIN request.cookie[1]
            THEN Extract(Some(request.cookie[1][item.name]))
            ELSE Extract(None)
      [] item.kind = "path" ->
            IF StartsWith(request.path, <<"/">> \o item.segment)
            THEN Extract("unit") ELSE Reject("not_found")

ExplicitDocumentation_filter_lenient(unit, internal) ==
    LET inner == ItemFilter(unit.item, internal)
    IN  IF unit.callback.kind = "optional" /\ inner.outcome = "reject"
        THEN Extract(None) ELSE inner

ExplicitDocumentation_filter(unit, internal) == ItemFilter(unit.item, internal)

----------------------------------------------------------------------------
(* Inputs *)

CookieNames == {"sid", "tok"}

Segments == {<<"a">>, <<"b">>}

Leaves == {cookie("sid"), optional("tok")} \cup {PathLiteral(s) : s \in Segments}

\* the composed units with exactly n leaves
RECURSIVE UnitsOfSize(_)
UnitsOfSize(n) ==
    IF n = 1 THEN Leaves
    ELSE UNION {{And(a, b) : a \in UnitsOfSize(k), b \in UnitsOfSize(n - k)}
                \cup {Or(a, b) : a \in UnitsOfSize(k), b \in UnitsOfSize(n - k)}
                : k \in 1..(n - 1)}

Items == {CookieItem("sid"), OptionalItem("tok"), PathLiteral(<<"a">>)}

Callbacks == {CookieCallback("sid"), OptionalCallback("tok")}

Wrappers ==
    {ExplicitDocumentation(i, c) : i \in Items, c \in Callbacks}
    \cup {cookie(n) : n \in CookieNames} \cup {optional(n) : n \in CookieNames}

Units == Wrappers \cup UNION {UnitsOfSize(n) : n \in 1..MaxUnits}

Partials ==
    {RouteDocumentationDefault,
     [RouteDocumentationDefault EXCEPT !.path = <<"/", "a">>, !.method = Some("GET")],
     [RouteDocumentationDefault EXCEPT
        !.cookies = <<[name |-> "old", description |-> Some("kept"), required |-> FALSE]>>,
        !.responses = [k \in {400, 200} |->
                         [DocumentedResponseDefault EXCEPT !.description = "Old"]]]}

Requests ==
    {[cookie |-> c, path |-> <<"/">> \o s] :
        c \in {None, Some(EmptyMap), Some([n \in {"sid"} |-> "v1"]),
               Some([n \in CookieNames |-> "v2"])},
        s \in Segments}

Methods == {None} \cup {Some(m) : m \in SupportedMethods \cup {"CONNECT"}}

ParamNames == {<<"x">>, <<"1">>}

Codes == {200, 400, 404}

Segment(i) == IF i % 2 = 0 THEN "a" ELSE "b"

\* "/a/{0}/b/{1}/a/{2}..." with n placeholders
RECURSIVE TemplatePath(_)
TemplatePath(n) ==
    IF n = 0 THEN <<>>
    ELSE TemplatePath(n - 1) \o <<"/", Segment(n - 1), "/">> \o Braced(Decimal(n - 1))

MethodRoutes ==
    {[RouteDocumentationDefault EXCEPT !.method = m, !.path = <<"/", "a">>] : m \in Methods}

ParamRoutes ==
    {[RouteDocumentationDefault EXCEPT
        !.method = Some("GET"),
        !.path = TemplatePath(Len(names)),
        !.parameters = [i \in 1..Len(names) |->
                          [name |-> names[i], description |-> None, parameter_type |-> integer]]]
     : names \in UNION {[1..n -> ParamNames] : n \in 1..MaxParams}}

ResponseFor(code) ==
    IF code = 200
    THEN [description |-> "OK",
          headers |-> <<[name |-> "etag", description |-> None, required |-> FALSE]>>,
          body |-> <<[body |-> Array(string), mime |-> None],
                     [body |-> Object([n \in {"id"} |-> integer]), mime |-> Some("application/json")]>>]
    ELSE [DocumentedResponseDefault EXCEPT !.description = "Error"]

ResponseRoutes ==
    {[RouteDocumentationDefault EXCEPT
        !.method = Some("GET"), !.path = <<"/", "r">>,
        !.responses = [c \in S |-> ResponseFor(c)]] : S \in SUBSET Codes}

OtherRoutes ==
    {[RouteDocumentationDefault EXCEPT
        !.path = <<"/", "o">>,
        !.headers = <<[name |-> "x-id", description |-> None, required |-> TRUE]>>,
        !.queries = <<[name |-> "q", description |-> Some("query"),
                       parameter_type |-> string, required |-> FALSE]>>,
        !.cookies = <<[name |-> "sid", description |-> None, required |-> FALSE]>>]}

RouteInputs == MethodRoutes \cup ParamRoutes \cup ResponseRoutes \cup OtherRoutes

RouteVecs == UNION {[1..n -> RouteInputs] : n \in 0..MaxRoutes}

RECURSIVE OrderChoices(_)
OrderChoices(rs) ==
    IF rs = <<>> THEN {<<>>}
    ELSE {<<p>> \o rest : p \in Perms(DOMAIN Head(rs).responses),
                          rest \in OrderChoices(Tail(rs))}

----------------------------------------------------------------------------
(* The state machine *)

Init ==
    /\ pc = "start"
    /\ filter = None
    /\ partial = None
    /\ routes = <<>>
    /\ hashOrder = <<>>
    /\ rendered = <<>>
    /\ openapi = [status |-> "none"]
    /\ outcome = None

\* a filter is composed (document::explicit / ExplicitDocumentation::new at its leaves)
New ==
    /\ pc = "start"
    /\ \E unit \in Units : filter' = Some(unit)
    /\ pc' = "built"
    /\ UNCHANGED <<partial, routes, hashOrder, rendered, openapi, outcome>>

\* document::describe(filter)
Describe ==
    /\ pc = "built"
    /\ routes' = describe(filter[1])
    /\ partial' = None
    /\ pc' = "described"
    /\ UNCHANGED <<filter, hashOrder, rendered, openapi, outcome>>

\* filter.describe(route) called on the unit itself with a partial record
UnitDescribe ==
    /\ pc = "built"
    /\ \E route \in Partials :
          /\ partial' = Some(route)
          /\ routes' = FilterDescribe(filter[1], route)
    /\ pc' = "described"
    /\ UNCHANGED <<filter, hashOrder, rendered, openapi, outcome>>

\* ExplicitDocumentation::filter on a request
Filter ==
    /\ pc \in {"built", "described"}
    /\ filter[1].kind = "explicit"
    /\ \E request \in Requests :
          outcome' = Some(<<request, ExplicitDocumentation_filter(filter[1], request)>>)
    /\ UNCHANGED <<pc, filter, partial, routes, hashOrder, rendered, openapi>>

\* the caller builds a Vec<RouteDocumentation> itself (all fields are pub)
Supply ==
    /\ pc = "start"
    /\ \E rs \in RouteVecs : routes' = rs
    /\ pc' = "supplied"
    /\ UNCHANGED <<filter, partial, hashOrder, rendered, openapi, outcome>>

\* document::to_openapi(routes)
ToOpenapi ==
    /\ pc \in {"described", "supplied"}
    /\ \E orders \in OrderChoices(routes) :
          /\ hashOrder' = orders
          /\ rendered' = RenderedPrefix(routes, orders)
          /\ openapi' = to_openapi(routes, orders)
    /\ pc' = "translated"
    /\ UNCHANGED <<filter, partial, routes, outcome>>

Next == New \/ Describe \/ UnitDescribe \/ Filter \/ Supply \/ ToOpenapi

Spec == Init /\ [][Next]_vars

----------------------------------------------------------------------------
(* Properties *)

Translated == pc = "translated"

Incoming == IF partial = None THEN RouteDocumentationDefault ELSE partial[1]

Occurs(s, sub) == \E k \in 1..Len(s) : StartsWith(SubSeq(s, k, Len(s)), sub)

\* every parameter's positional placeholder occurs in the path
WellFormed(route) ==
    \A i \in 1..Len(route.parameters) : Occurs(route.path, Braced(Decimal(i - 1)))

\* the path with every {i} of the original replaced by {p_i.name}, and nothing else
RECURSIVE ExpectedPath(_, _)
ExpectedPath(path, parameters) ==
    IF path = <<>> THEN <<>>
    ELSE LET hits == {i \in 1..Len(parameters) : StartsWith(path, Braced(Decimal(i - 1)))}
         IN  IF hits = {} THEN <<Head(path)>> \o ExpectedPath(Tail(path), parameters)
             ELSE LET i == CHOOSE h \in hits : TRUE
                  IN  Braced(parameters[i].name)
                      \o ExpectedPath(SubSeq(path, Len(Braced(Decimal(i - 1))) + 1, Len(path)),
                                      parameters)

SlotOf(method) ==
    CASE method = "GET" -> "get"       [] method = "POST" -> "post"
      [] method = "PUT" -> "put"       [] method = "DELETE" -> "delete"
      [] method = "HEAD" -> "head"     [] method = "OPTIONS" -> "options"
      [] method = "PATCH" -> "patch"   [] method = "TRACE" -> "trace"

FilledSlots(item) == {s \in Slots : item[s] # None}

OperationOf(item) == item[CHOOSE s \in Slots : item[s] # None][1]

\* C1: every route whose parameters' placeholders {0}..{n-1} occur in its path
\* is rendered under the path with each {i} replaced by {p_i.name} and no
\* other substitution, whatever the parameter names are.
C1_RenamingSimultaneous ==
    Translated =>
        \A i \in 1..Len(rendered) :
            WellFormed(routes[i]) =>
                rendered[i][1] = ExpectedPath(routes[i].path, routes[i].parameters)

\* C2: to_openapi returns a document for every vector of routes, whatever
\* the recorded methods are.
C2_TranslationTotal == Translated => openapi.status = "ok"

\* C3: describe(filter) returns the records of filter.describe(empty record), same
\* number and order, with "/" for every empty path, every other path and every
\* other field unchanged, so that no returned path is empty.
C3_DescribeNormalisesEmptyPath ==
    (pc \in {"described", "translated"} /\ filter # None /\ partial = None) =>
        LET raw == FilterDescribe(filter[1], RouteDocumentationDefault)
        IN  /\ Len(routes) = Len(raw)
            /\ \A i \in 1..Len(raw) :
                  /\ routes[i].path # <<>>
                  /\ raw[i].path = <<>> => routes[i].path = <<"/">>
                  /\ raw[i].path # <<>> => routes[i].path = raw[i].path
                  /\ [routes[i] EXCEPT !.path = raw[i].path] = raw[i]

C3_Witness ==
    /\ pc = "described" /\ filter # None /\ partial = None
    /\ LET raw == FilterDescribe(filter[1], RouteDocumentationDefault)
       IN  /\ \E i \in 1..Len(raw) : raw[i].path = <<>> /\ routes[i].path = <<"/">>
           /\ \E i \in 1..Len(raw) : raw[i].path # <<>> /\ routes[i].cookies # <<>>

\* C4: the path item built for a route has the route's operation in the slot of
\* its recorded method (one of the eight supported ones), in the POST slot when
\* no method was recorded, and every other slot empty.
C4_OneMethodSlot ==
    \A i \in 1..Len(rendered) :
        LET item == rendered[i][2]
            slot == IF routes[i].method = None THEN "post" ELSE SlotOf(routes[i].method[1])
        IN  /\ FilledSlots(item) = {slot}
            /\ item[slot][1].parameters = OperationParameters(routes[i])
            /\ Keys(item[slot][1].responses) = DOMAIN routes[i].responses

C4_Witness ==
    /\ Translated /\ Len(rendered) = 2
    /\ routes[1].method = None /\ rendered[1][2].post # None
    /\ routes[2].method = Some("TRACE") /\ rendered[2][2].trace # None

\* C5: whatever order the responses map is iterated in, the rendered operation's
\* responses are in strictly ascending status-code order, one entry per status
\* code of the route's responses map and no other.
C5_ResponsesAscending ==
    \A i \in 1..Len(rendered) :
        LET responses == OperationOf(rendered[i][2]).responses
        IN  /\ \A a, b \in 1..Len(responses) : a < b => responses[a][1] < responses[b][1]
            /\ Keys(responses) = DOMAIN routes[i].responses
            /\ Len(responses) = Cardinality(DOMAIN routes[i].responses)
            /\ \A a \in 1..Len(responses) :
                  responses[a][2] = RenderResponse(routes[i].responses[responses[a][1]])

C5_Witness ==
    /\ Translated
    /\ \E i \in 1..Len(rendered) :
          /\ hashOrder[i] = <<404, 200, 400>>
          /\ Len(OperationOf(rendered[i][2]).responses) = 3

\* C6: ExplicitDocumentation.describe(partial) returns exactly one record, the
\* partial record with the callback applied once; nothing the wrapped unit
\* would document (its path segment) appears in it.
C6_ExplicitDescribeCallbackOnly ==
    (partial # None /\ filter[1].kind = "explicit") =>
        /\ Len(routes) = 1
        /\ routes[1] = ApplyCallback(filter[1].callback, partial[1])
        /\ Len(routes[1].cookies) = Len(partial[1].cookies) + 1
        /\ routes[1].path = partial[1].path

C6_Witness ==
    /\ partial # None /\ filter[1].kind = "explicit"
    /\ filter[1].item.kind = "path"
    /\ partial[1].path # <<>>
    /\ routes[1].path = partial[1].path
    /\ Len(routes[1].cookies) = 1

RECURSIVE SumLen(_)
SumLen(ss) == IF ss = <<>> THEN 0 ELSE Len(Head(ss)) + SumLen(Tail(ss))

\* C7: for a sequencing unit (A then B) and any partial record, the described
\* output is the concatenation, over the records r of A.describe(partial) in
\* order, of B.describe(r); its length is the sum of the lengths of those.
C7_SequencingCrossProduct ==
    (partial # None /\ filter[1].kind = "and") =>
        LET firsts == FilterDescribe(filter[1].first, partial[1])
            each   == [i \in 1..Len(firsts) |-> FilterDescribe(filter[1].second, firsts[i])]
        IN  /\ routes = Concat(each)
            /\ Len(routes) = SumLen(each)
            /\ (\A i \in 1..Len(each) : Len(each[i]) = Len(each[1]))
                  => Len(routes) = Len(firsts) * Len(each[1])

C7_Witness ==
    /\ partial # None /\ filter[1].kind = "and"
    /\ filter[1].first.kind = "or"
    /\ Len(routes) = 2 /\ routes[1] # routes[2]

IsCookieFilter == filter # None /\ \E n \in CookieNames : filter[1] = cookie(n)

BadResponse == [description |-> "Bad Response", headers |-> <<>>, body |-> <<>>]

\* C8: cookie(name) documents, on any partial record, exactly one record that
\* adds a required cookie of that name and a 400 response "Bad Response" with no
\* body; translated, its operation has a required cookie parameter of that name
\* and a responses entry 400 with that description and empty content.
C8_CookieDocumented ==
    (IsCookieFilter /\ pc \in {"described", "translated"}) =>
        LET name == filter[1].callback.name
        IN  /\ Len(routes) = 1
            /\ routes[1].cookies =
                  Append(Incoming.cookies, [name |-> name, description |-> None, required |-> TRUE])
            /\ DOMAIN routes[1].responses = DOMAIN Incoming.responses \cup {400}
            /\ routes[1].responses[400] = BadResponse
            /\ \A c \in DOMAIN Incoming.responses \ {400} :
                  routes[1].responses[c] = Incoming.responses[c]
            /\ \A f \in {"headers", "method", "parameters", "queries"} :
                  routes[1][f] = Incoming[f]
            /\ Translated =>
                  /\ openapi.status = "ok"
                  /\ LET operation == OperationOf(IndexMapGet(openapi.paths, routes[1].path))
                     IN  /\ \E k \in 1..Len(operation.parameters) :
                               /\ operation.parameters[k].location = "cookie"
                               /\ operation.parameters[k].name = name
                               /\ operation.parameters[k].required
                         /\ 400 \in Keys(operation.responses)
                         /\ IndexMapGet(operation.responses, 400).description = "Bad Response"
                         /\ IndexMapGet(operation.responses, 400).content = <<>>

C8_Witness ==
    /\ IsCookieFilter /\ Translated
    /\ partial # None /\ 400 \in DOMAIN partial[1].responses
    /\ Len(routes[1].cookies) = 2

\* C9: for every request, the wrapper's filter yields the outcome of the wrapped
\* unit's filter, whatever the callback is and whether or not describe was called.
C9_WrapperDelegatesMatching ==
    outcome # None =>
        outcome[1][2] = ItemFilter(filter[1].item, outcome[1][1])

C9_Witness ==
    /\ outcome # None /\ pc = "described"
    /\ filter[1].item.kind = "cookie_item" /\ filter[1].callback.kind = "optional"
    /\ outcome[1][2].outcome = "reject"

LastWith(path) ==
    CHOOSE i \in 1..Len(rendered) :
        /\ rendered[i][1] = path
        /\ \A j \in 1..Len(rendered) : rendered[j][1] = path => j <= i

\* C10: the document has exactly one path entry per distinct final path of the
\* input routes, each with exactly one method slot filled; for routes with the
\* same final path the path item of the last one is the entry.
C10_LastRouteWinsPerPath ==
    (Translated /\ openapi.status = "ok") =>
        /\ Len(rendered) = Len(routes)
        /\ Keys(openapi.paths) = {rendered[i][1] : i \in 1..Len(rendered)}
        /\ Len(openapi.paths) = Cardinality(Keys(openapi.paths))
        /\ \A k \in 1..Len(openapi.paths) :
              /\ Cardinality(FilledSlots(openapi.paths[k][2])) = 1
              /\ openapi.paths[k][2] = rendered[LastWith(openapi.paths[k][1])][2]

C10_Witness ==
    /\ Translated /\ openapi.status = "ok"
    /\ Len(routes) = 2 /\ Len(openapi.paths) = 1
    /\ routes[1].method = Some("GET") /\ routes[2].method = Some("POST")
    /\ openapi.paths[1][2].get = None /\ openapi.paths[1][2].post # None

====
